---- MODULE Spec2Model ----
(***************************************************************************)
(* Binary buddy allocator of src/buddy.c: a 2^MAX_ORDER byte arena of      *)
(* 2^MIN_ORDER byte pages, one free list per order, split on allocation    *)
(* and buddy coalescing on free.                                           *)
(*                                                                         *)
(* Addresses are byte offsets from g_memory; free lists are sequences of   *)
(* page indices with the list head (free_area[o].next) first.              *)
(***************************************************************************)
EXTENDS Integers, Sequences, FiniteSets, TLC

\* ---------------------------------------------------------------- constants
MIN_ORDER == 12
MAX_ORDER == 20
PAGE_SIZE == 2^MIN_ORDER
N_PAGES == (2^MAX_ORDER) \div PAGE_SIZE
UNSET == -1
NULL == -1

\* ------------------------------------------------------------------- bounds
\* most allocations the caller holds at once
MaxLive == 3

\* request sizes the caller passes to buddy_alloc
Sizes == { -1, 0, 1, 4097, 8192, 2^MAX_ORDER, 2^MAX_ORDER + 1 }

Orders == MIN_ORDER..MAX_ORDER
Pages == 0..(N_PAGES - 1)

VARIABLES free_area, order, live, last, ub
vars == <<free_area, order, live, last, ub>>

\* ------------------------------------------------------------------ helpers
MAX(X, Y) == IF X > Y THEN X ELSE Y

PAGE_TO_ADDR(page_idx) == page_idx * PAGE_SIZE

ADDR_TO_PAGE(addr) == addr \div PAGE_SIZE

\* mutant: the bit above the order bit is flipped (1 << (o + 1))
BUDDY_ADDR_next(addr, o) ==
  IF (addr \div (2^(o + 1))) % 2 = 1 THEN addr - 2^(o + 1) ELSE addr + 2^(o + 1)

\* (offset ^ (1 << o)): flip bit o of the offset
BUDDY_ADDR(addr, o) ==
  IF (addr \div (2^o)) % 2 = 1 THEN addr - 2^o ELSE addr + 2^o

\* mutant: floor(log2(size)) + 1 in place of the ceiling
CeilLog2_floor1(size) ==
  IF size < 1 THEN 0
  ELSE (CHOOSE k \in 0..31 : 2^k <= size /\ size < 2^(k + 1)) + 1

\* ceil(log2(size)) for size >= 1
CeilLog2(size) ==
  CHOOSE k \in 0..31 : 2^k >= size /\ (k = 0 \/ 2^(k - 1) < size)

\* mutant: floor(log2(size)) + 1, an exact power of two lands one order up
REQ_ORDER_floor(size) ==
  MAX((CHOOSE k \in 0..31 : 2^k <= size /\ size < 2^(k + 1)) + 1, MIN_ORDER)

REQ_ORDER(size) == MAX(CeilLog2(size), MIN_ORDER)

\* mutant: the other end of the doubled block
RightHalf_far(left, ord) == left + (2^(ord + 1)) \div PAGE_SIZE - 1

\* index of the right half of the block of order ord + 1 headed by page left
RightHalf(left, ord) == left + (2^ord) \div PAGE_SIZE

\* mutant: inverted comparison, the merged block keeps the higher address
MoveToBuddy_inv(address, buddy_address) == address < buddy_address

\* the merged block is headed by the buddy when the buddy lies lower
MoveToBuddy(address, buddy_address) == address > buddy_address

\* mutant: the loop stops one order early
Continue_early(ord) == ord < MAX_ORDER - 1

\* mutant: the increment comes first (++order < MAX_ORDER)
Continue_pre(ord) == ord + 1 < MAX_ORDER

\* loop condition of buddy_free, tested before the increment
Continue(ord) == ord < MAX_ORDER

list_empty(l) == l = <<>>

list_add(p, l) == <<p>> \o l

list_del(p, l) == SelectSeq(l, LAMBDA q : q # p)

\* ------------------------------------------------------------- buddy_alloc
RECURSIVE buddy_alloc(_, _)
RECURSIVE buddy_split(_, _, _)

\* mutant: the exact-fit branch takes free_area[i].prev, the list's tail
buddy_split_prev(st, i, ord) ==
  IF ord = i
  THEN IF list_empty(st.free_area[i])
       THEN [st EXCEPT !.ret = NULL, !.ub = TRUE]
       ELSE LET left == st.free_area[i][Len(st.free_area[i])]
            IN  [free_area |-> [st.free_area EXCEPT ![i] = list_del(left, @)],
                 order |-> [st.order EXCEPT ![left] = ord],
                 ret |-> PAGE_TO_ADDR(left),
                 ub |-> st.ub,
                 depth |-> st.depth]
  ELSE LET r == buddy_alloc(st, 2^(ord + 1))
       IN  IF r.ret = NULL
           THEN [r EXCEPT !.ub = TRUE]
           ELSE LET left == ADDR_TO_PAGE(r.ret)
                    right == RightHalf(left, ord)
                IN  [free_area |-> [r.free_area EXCEPT ![ord] = list_add(right, @)],
                     order |-> [r.order EXCEPT ![left] = ord],
                     ret |-> PAGE_TO_ADDR(left),
                     ub |-> r.ub,
                     depth |-> r.depth + 1]

\* mutant: the exact-fit branch forgets list_del, the block stays linked
buddy_split_nodel(st, i, ord) ==
  IF ord = i
  THEN IF list_empty(st.free_area[i])
       THEN [st EXCEPT !.ret = NULL, !.ub = TRUE]
       ELSE LET left == Head(st.free_area[i])
            IN  [free_area |-> st.free_area,
                 order |-> [st.order EXCEPT ![left] = ord],
                 ret |-> PAGE_TO_ADDR(left),
                 ub |-> st.ub,
                 depth |-> st.depth]
  ELSE LET r == buddy_alloc(st, 2^(ord + 1))
       IN  IF r.ret = NULL
           THEN [r EXCEPT !.ub = TRUE]
           ELSE LET left == ADDR_TO_PAGE(r.ret)
                    right == RightHalf(left, ord)
                IN  [free_area |-> [r.free_area EXCEPT ![ord] = list_add(right, @)],
                     order |-> [r.order EXCEPT ![left] = ord],
                     ret |-> PAGE_TO_ADDR(left),
                     ub |-> r.ub,
                     depth |-> r.depth + 1]

\* mutant: the returned block is stamped with the list index i, not order
buddy_split_ordi(st, i, ord) ==
  IF ord = i
  THEN IF list_empty(st.free_area[i])
       THEN [st EXCEPT !.ret = NULL, !.ub = TRUE]
       ELSE LET left == Head(st.free_area[i])
            IN  [free_area |-> [st.free_area EXCEPT ![i] = list_del(left, @)],
                 order |-> [st.order EXCEPT ![left] = i],
                 ret |-> PAGE_TO_ADDR(left),
                 ub |-> st.ub,
                 depth |-> st.depth]
  ELSE LET r == buddy_alloc(st, 2^(ord + 1))
       IN  IF r.ret = NULL
           THEN [r EXCEPT !.ub = TRUE]
           ELSE LET left == ADDR_TO_PAGE(r.ret)
                    right == RightHalf(left, ord)
                IN  [free_area |-> [r.free_area EXCEPT ![ord] = list_add(right, @)],
                     order |-> [r.order EXCEPT ![left] = i],
                     ret |-> PAGE_TO_ADDR(left),
                     ub |-> r.ub,
                     depth |-> r.depth + 1]

buddy_split(st, i, ord) ==
  IF ord = i
  THEN IF list_empty(st.free_area[i])
       THEN [st EXCEPT !.ret = NULL, !.ub = TRUE]
       ELSE LET left == Head(st.free_area[i])
            IN  [free_area |-> [st.free_area EXCEPT ![i] = list_del(left, @)],
                 order |-> [st.order EXCEPT ![left] = ord],
                 ret |-> PAGE_TO_ADDR(left),
                 ub |-> st.ub,
                 depth |-> st.depth]
  ELSE LET r == buddy_alloc(st, 2^(ord + 1))
       IN  IF r.ret = NULL
           THEN [r EXCEPT !.ub = TRUE]
           ELSE LET left == ADDR_TO_PAGE(r.ret)
                    right == RightHalf(left, ord)
                IN  [free_area |-> [r.free_area EXCEPT ![ord] = list_add(right, @)],
                     order |-> [r.order EXCEPT ![left] = ord],
                     ret |-> PAGE_TO_ADDR(left),
                     ub |-> r.ub,
                     depth |-> r.depth + 1]

\* first non-empty free list among the orders in S
FirstNonEmpty(st, S) ==
  LET nonempty == {i \in S : ~list_empty(st.free_area[i])}
  IN  IF nonempty = {} THEN NULL
      ELSE CHOOSE i \in nonempty : \A k \in nonempty : i <= k

\* mutant: the search loop stops below MAX_ORDER (i < MAX_ORDER)
buddy_alloc_short(st, size) ==
  IF size <= 0
  THEN [st EXCEPT !.ret = NULL]
  ELSE LET req == REQ_ORDER(size)
           i == FirstNonEmpty(st, req..(MAX_ORDER - 1))
       IN  IF i = NULL
           THEN [st EXCEPT !.ret = NULL]
           ELSE buddy_split(st, i, req)

\* mutant: the result of buddy_split is dropped and the loop is left
buddy_alloc_noret(st, size) ==
  IF size <= 0
  THEN [st EXCEPT !.ret = NULL]
  ELSE LET req == REQ_ORDER(size)
           i == FirstNonEmpty(st, req..MAX_ORDER)
       IN  IF i = NULL
           THEN [st EXCEPT !.ret = NULL]
           ELSE [buddy_split(st, i, req) EXCEPT !.ret = NULL]

\* mutant: only negative sizes are rejected (size < 0)
buddy_alloc_neg(st, size) ==
  IF size < 0
  THEN [st EXCEPT !.ret = NULL]
  ELSE LET req == REQ_ORDER(size)
           i == FirstNonEmpty(st, req..MAX_ORDER)
       IN  IF i = NULL
           THEN [st EXCEPT !.ret = NULL]
           ELSE buddy_split(st, i, req)

buddy_alloc(st, size) ==
  IF size <= 0
  THEN [st EXCEPT !.ret = NULL]
  ELSE LET req == REQ_ORDER(size)
           i == FirstNonEmpty(st, req..MAX_ORDER)
       IN  IF i = NULL
           THEN [st EXCEPT !.ret = NULL]
           ELSE buddy_split(st, i, req)

\* -------------------------------------------------------------- buddy_free
\* mutant: only the head of the list is compared with the buddy address
find_buddy_head(st, address, ord) ==
  IF st.free_area[ord] # <<>>
     /\ BUDDY_ADDR(address, ord) = PAGE_TO_ADDR(Head(st.free_area[ord]))
  THEN Head(st.free_area[ord]) ELSE NULL

\* first page of free_area[ord] whose address is the buddy address, or NULL
find_buddy(st, address, ord) ==
  LET hits == SelectSeq(st.free_area[ord],
                        LAMBDA q : BUDDY_ADDR(address, ord) = PAGE_TO_ADDR(q))
  IN  IF hits = <<>> THEN NULL ELSE Head(hits)

RECURSIVE free_loop(_, _, _, _)

\* mutant: the merged buddy is not unlinked (list_del forgotten)
free_loop_nodel(st, address, index, ord) ==
  LET current_page == find_buddy(st, address, ord)
  IN  IF current_page = NULL
         \/ BUDDY_ADDR(address, ord) # PAGE_TO_ADDR(current_page)
      THEN [st EXCEPT !.order[index] = UNSET,
                      !.free_area[ord] = list_add(index, @),
                      !.inserted = TRUE]
      ELSE LET address2 == IF MoveToBuddy(address, PAGE_TO_ADDR(current_page))
                           THEN PAGE_TO_ADDR(current_page) ELSE address
               index2 == IF MoveToBuddy(address, PAGE_TO_ADDR(current_page))
                         THEN ADDR_TO_PAGE(address2) ELSE index
               st2 == [st EXCEPT !.iters = @ + 1]
           IN  IF Continue(ord)
               THEN free_loop(st2, address2, index2, ord + 1)
               ELSE st2

\* mutant: the freed block is linked at the tail (list_add_tail)
free_loop_tail(st, address, index, ord) ==
  LET current_page == find_buddy(st, address, ord)
  IN  IF current_page = NULL
         \/ BUDDY_ADDR(address, ord) # PAGE_TO_ADDR(current_page)
      THEN [st EXCEPT !.order[index] = UNSET,
                      !.free_area[ord] = Append(@, index),
                      !.inserted = TRUE]
      ELSE LET address2 == IF MoveToBuddy(address, PAGE_TO_ADDR(current_page))
                           THEN PAGE_TO_ADDR(current_page) ELSE address
               index2 == IF MoveToBuddy(address, PAGE_TO_ADDR(current_page))
                         THEN ADDR_TO_PAGE(address2) ELSE index
               st2 == [st EXCEPT !.free_area[ord] = list_del(current_page, @),
                                 !.iters = @ + 1]
           IN  IF Continue(ord)
               THEN free_loop(st2, address2, index2, ord + 1)
               ELSE st2

free_loop(st, address, index, ord) ==
  LET current_page == find_buddy(st, address, ord)
  IN  IF current_page = NULL
         \/ BUDDY_ADDR(address, ord) # PAGE_TO_ADDR(current_page)
      THEN [st EXCEPT !.order[index] = UNSET,
                      !.free_area[ord] = list_add(index, @),
                      !.inserted = TRUE]
      ELSE LET address2 == IF MoveToBuddy(address, PAGE_TO_ADDR(current_page))
                           THEN PAGE_TO_ADDR(current_page) ELSE address
               index2 == IF MoveToBuddy(address, PAGE_TO_ADDR(current_page))
                         THEN ADDR_TO_PAGE(address2) ELSE index
               st2 == [st EXCEPT !.free_area[ord] = list_del(current_page, @),
                                 !.iters = @ + 1]
           IN  IF Continue(ord)
               THEN free_loop(st2, address2, index2, ord + 1)
               ELSE st2

buddy_free(st, addr) ==
  LET index == ADDR_TO_PAGE(addr)
      ord == st.order[index]
      st0 == [free_area |-> st.free_area, order |-> st.order, ub |-> st.ub,
              inserted |-> FALSE, iters |-> 0]
  IN  IF ord \notin Orders
      THEN [st0 EXCEPT !.ub = TRUE]
      ELSE free_loop(st0, addr, index, ord)

\* ------------------------------------------------------------ state machine
State ==
  [free_area |-> free_area, order |-> order, ret |-> NULL, ub |-> ub,
   depth |-> 0]

\* buddy_init
Init ==
  /\ order = [p \in Pages |-> UNSET]
  /\ free_area = [o \in Orders |-> IF o = MAX_ORDER THEN <<0>> ELSE <<>>]
  /\ live = << >>
  /\ last = [op |-> "init", arg |-> 0, ret |-> NULL, steps |-> 0]
  /\ ub = FALSE

LiveAddrs == DOMAIN live

\* the caller calls buddy_alloc(size) and keeps the returned address
Alloc ==
  \E size \in Sizes :
    LET r == buddy_alloc(State, size)
    IN  /\ r.ret = NULL \/ Cardinality(LiveAddrs) < MaxLive
        /\ free_area' = r.free_area
        /\ order' = r.order
        /\ ub' = r.ub
        /\ live' = IF r.ret = NULL THEN live
                   ELSE [a \in LiveAddrs \cup {r.ret} |->
                           IF a = r.ret THEN size ELSE live[a]]
        /\ last' = [op |-> "alloc", arg |-> size, ret |-> r.ret,
                    steps |-> r.depth]

\* the caller calls buddy_free on an address it holds
Free ==
  \E addr \in LiveAddrs :
    LET r == buddy_free(State, addr)
    IN  /\ free_area' = r.free_area
        /\ order' = r.order
        /\ ub' = r.ub
        /\ live' = [a \in LiveAddrs \ {addr} |-> live[a]]
        /\ last' = [op |-> "free", arg |-> addr, ret |-> NULL,
                    steps |-> r.iters, inserted |-> r.inserted]

Next == Alloc \/ Free

Spec == Init /\ [][Next]_vars

TypeOK ==
  /\ ub \in BOOLEAN
  /\ \A o \in Orders : \A k \in 1..Len(free_area[o]) : free_area[o][k] \in Pages
  /\ LiveAddrs \subseteq {PAGE_TO_ADDR(p) : p \in Pages}

\* ------------------------------------------------------------------- claims
\* pages spanned by a block of order o
BlockPages(o) == IF o \in Orders THEN 2^(o - MIN_ORDER) ELSE 0

\* the blocks the allocator tracks, one per free-list entry (so that a page
\* linked twice counts twice) and one per live allocation
FreeBlocks ==
  UNION {{[kind |-> "free", head |-> free_area[o][k], ord |-> o, pos |-> k] :
            k \in 1..Len(free_area[o])} : o \in Orders}

LiveBlocks ==
  {[kind |-> "live", head |-> ADDR_TO_PAGE(a),
    ord |-> order[ADDR_TO_PAGE(a)], pos |-> 0] : a \in LiveAddrs}

Blocks == FreeBlocks \cup LiveBlocks

RECURSIVE SumPages(_)
SumPages(S) ==
  IF S = {} THEN 0
  ELSE LET b == CHOOSE x \in S : TRUE
       IN  BlockPages(b.ord) + SumPages(S \ {b})

Disjoint(b1, b2) ==
  \/ b1.head + BlockPages(b1.ord) <= b2.head
  \/ b2.head + BlockPages(b2.ord) <= b1.head

\* C1: in every reachable state the blocks in the free lists together with
\* the live allocated blocks cover every page of the arena exactly once:
\* every block lies in the arena, no two blocks share a page, and the blocks
\* hold N_PAGES pages in all.
C1_Coverage ==
  /\ \A b \in Blocks : b.head >= 0 /\ b.head + BlockPages(b.ord) <= N_PAGES
  /\ \A b1, b2 \in Blocks : b1 # b2 => Disjoint(b1, b2)
  /\ SumPages(Blocks) = N_PAGES

\* a free has run while allocations are live and a free list holds two blocks
C1_Witness ==
  /\ last.op = "free"
  /\ LiveAddrs # {}
  /\ \E o \in Orders : Len(free_area[o]) >= 2

FullyFree ==
  /\ free_area[MAX_ORDER] = <<0>>
  /\ \A o \in MIN_ORDER..(MAX_ORDER - 1) : free_area[o] = <<>>

\* C2: once every returned address has been freed, free_area[MAX_ORDER]
\* holds exactly page 0 and every lower free list is empty.
C2_FullyFree == (LiveAddrs = {}) => FullyFree

\* the last outstanding address has just been freed, and it was not the
\* lowest address of the arena
C2_Witness == last.op = "free" /\ LiveAddrs = {} /\ last.arg # 0

\* k is max(MIN_ORDER, ceil(log2(s))), stated by the powers of two around s
IsCeilOrder(s, k) ==
  \/ k = MIN_ORDER /\ s <= 2^MIN_ORDER
  \/ k > MIN_ORDER /\ 2^(k - 1) < s /\ s <= 2^k

\* C3: the page record at the head of every live allocation of size s holds
\* order max(MIN_ORDER, ceil(log2(s))) from the allocation until its free.
C3_RoundTripOrder ==
  \A a \in LiveAddrs : IsCeilOrder(live[a], order[ADDR_TO_PAGE(a)])

\* a block allocated with an exact power of two is still live after another
\* address was freed
C3_Witness ==
  /\ last.op = "free"
  /\ \E a \in LiveAddrs : live[a] = 8192 /\ order[ADDR_TO_PAGE(a)] = 13

\* the requested order of the claims: max(MIN_ORDER, ceil(log2(s))), s > 0
RequestedOrder(s) == CHOOSE k \in MIN_ORDER..31 : IsCeilOrder(s, k)

\* no free list of order r..MAX_ORDER holds a block (true when r > MAX_ORDER)
NoBlockFrom(r) == \A i \in r..MAX_ORDER : free_area[i] = <<>>

ArenaAddrs == 0..(2^MAX_ORDER - 1)

\* C4: a call with size s > 0 and requested order r fails if and only if
\* r > MAX_ORDER or every free list of order r..MAX_ORDER was empty at the
\* call; otherwise it returns an address inside the arena.
C4_FailsIffNoBlock ==
  [][(last'.op = "alloc" /\ last'.arg > 0) =>
       LET r == RequestedOrder(last'.arg)
       IN  /\ (last'.ret = NULL) <=> (r > MAX_ORDER \/ NoBlockFrom(r))
           /\ last'.ret # NULL => last'.ret \in ArenaAddrs]_vars

\* a request for the whole arena has failed while smaller blocks are free
C4_Witness ==
  /\ last.op = "alloc" /\ last.ret = NULL /\ last.arg = 2^MAX_ORDER
  /\ \E o \in Orders : free_area[o] # <<>>

\* C5: a call of buddy_alloc that returns an error leaves every free list
\* and every page record's order field as they were.
C5_ErrorLeavesState ==
  [][(last'.op = "alloc" /\ last'.ret = NULL) =>
       (free_area' = free_area /\ order' = order)]_vars

\* a non-positive size has been rejected while allocations are live
C5_Witness ==
  /\ last.op = "alloc" /\ last.ret = NULL /\ last.arg <= 0
  /\ LiveAddrs # {}

\* C6 as claimed: the result of a call rejected for a non-positive size
\* differs from the result of a call that ran out of memory.
C6_DistinctErrors ==
  [][(/\ last.op = "alloc" /\ last.arg <= 0
      /\ last'.op = "alloc" /\ last'.arg > 0
      /\ (RequestedOrder(last'.arg) > MAX_ORDER
            \/ NoBlockFrom(RequestedOrder(last'.arg))))
       => last'.ret # last.ret]_vars

\* C6 amended: both error kinds are reported by the one result NULL, and
\* NULL is returned for nothing else: the call returns NULL if and only if
\* the size is non-positive or no block of sufficient order is free.
C6_ErrorsAreNull ==
  [][last'.op = "alloc" =>
       ((last'.ret = NULL) <=>
          (\/ last'.arg <= 0
           \/ RequestedOrder(last'.arg) > MAX_ORDER
           \/ NoBlockFrom(RequestedOrder(last'.arg))))]_vars

\* a request above the arena size has been answered with NULL
C6_Witness ==
  last.op = "alloc" /\ last.arg > 2^MAX_ORDER /\ last.ret = NULL

\* C7: every block in free_area[o] and every live block of order o starts at
\* an arena offset divisible by 2^o.
C7_Alignment ==
  \A b \in Blocks : b.ord \in Orders /\ PAGE_TO_ADDR(b.head) % (2^b.ord) = 0

\* a free has coalesced the freed block into its lower buddy, away from the
\* arena base
C7_Witness ==
  /\ last.op = "free" /\ last.steps >= 1
  /\ \E o \in Orders :
       /\ free_area[o] # <<>>
       /\ Head(free_area[o]) # 0
       /\ PAGE_TO_ADDR(Head(free_area[o])) < last.arg
       /\ last.arg < PAGE_TO_ADDR(Head(free_area[o])) + 2^o

\* smallest order >= r whose free list holds a block
FirstOrderFrom(r) ==
  CHOOSE i \in r..MAX_ORDER :
    free_area[i] # <<>> /\ \A k \in r..(i - 1) : free_area[k] = <<>>

\* C8: a successful call with requested order r takes the head A of the
\* first non-empty list free_area[i], i >= r, returns A, adds the block at
\* A + 2^j to free_area[j] for each j in r..i-1 and changes no other list.
C8_SplitEffect ==
  [][(last'.op = "alloc" /\ last'.ret # NULL) =>
       LET r == RequestedOrder(last'.arg)
           i == FirstOrderFrom(r)
           A == PAGE_TO_ADDR(Head(free_area[i]))
       IN  /\ last'.ret = A
           /\ free_area'[i] = Tail(free_area[i])
           /\ \A j \in r..(i - 1) :
                free_area'[j] = <<ADDR_TO_PAGE(A + 2^j)>> \o free_area[j]
           /\ \A j \in Orders \ (r..i) : free_area'[j] = free_area[j]]_vars

\* an allocation has split a block away from the arena base two levels
\* down, while other allocations are live
C8_Witness ==
  /\ last.op = "alloc" /\ last.ret # NULL /\ last.ret # 0
  /\ last.steps >= 2
  /\ Cardinality(LiveAddrs) >= 2

\* the buddy of the size-aligned block of order k at offset x
BuddyOf(x, k) == IF x % (2^(k + 1)) = 0 THEN x + 2^k ELSE x - 2^k

IsLinked(fa, k, p) == \E n \in 1..Len(fa[k]) : fa[k][n] = p

Unlink(l, p) == SelectSeq(l, LAMBDA q : q # p)

\* merge the block of order k at offset x upward while its buddy is linked in
\* the list of its order and the order is below MAX_ORDER
RECURSIVE MergeEnd(_, _, _)
MergeEnd(fa, x, k) ==
  IF k < MAX_ORDER /\ IsLinked(fa, k, ADDR_TO_PAGE(BuddyOf(x, k)))
  THEN MergeEnd([fa EXCEPT ![k] = Unlink(@, ADDR_TO_PAGE(BuddyOf(x, k)))],
                IF BuddyOf(x, k) < x THEN BuddyOf(x, k) ELSE x, k + 1)
  ELSE [fa |-> fa, x |-> x, k |-> k]

\* C9: buddy_free(A) on a live block of order o merges the block with its
\* buddy at each successive order as long as the buddy is linked in that
\* order's list and the order is below MAX_ORDER, unlinks each merged buddy
\* and inserts the result once, at the lowest address of the merged range,
\* into the list of the final order; other list members are unchanged.
C9_FreeEffect ==
  [][last'.op = "free" =>
       LET m == MergeEnd(free_area, last'.arg, order[ADDR_TO_PAGE(last'.arg)])
           p == ADDR_TO_PAGE(m.x)
       IN  /\ m.x % (2^m.k) = 0
           /\ m.x <= last'.arg /\ last'.arg < m.x + 2^m.k
           /\ Len(free_area'[m.k]) = Len(m.fa[m.k]) + 1
           /\ Unlink(free_area'[m.k], p) = m.fa[m.k]
           /\ \A j \in Orders \ {m.k} : free_area'[j] = m.fa[j]]_vars

\* a free has merged at least twice and stopped below MAX_ORDER at a buddy
\* that is not free
C9_Witness ==
  /\ last.op = "free" /\ last.steps >= 2
  /\ \E o \in MIN_ORDER..(MAX_ORDER - 1) :
       /\ free_area[o] # <<>>
       /\ PAGE_TO_ADDR(Head(free_area[o])) <= last.arg
       /\ last.arg < PAGE_TO_ADDR(Head(free_area[o])) + 2^o

\* C10: the head page record of every block linked into free_area[o] has an
\* order field equal to o or to UNSET.
C10_FreeOrderField ==
  \A o \in Orders : \A n \in 1..Len(free_area[o]) :
    order[free_area[o][n]] \in {o, UNSET}

\* pages that head a block the allocator tracks
HeadPages == {b.head : b \in Blocks}

\* C11: every page record that heads neither a free block nor a live
\* allocated block has its order field equal to UNSET.
C11_NonHeadUnset == \A p \in Pages \ HeadPages : order[p] = UNSET

FreeHeads == {b.head : b \in FreeBlocks}

\* C13: no page record is linked twice, in one free list or in two, and the
\* head page of a live allocated block is linked into no free list.
C13_SingleMembership ==
  /\ Cardinality(FreeHeads) = Cardinality(FreeBlocks)
  /\ \A a \in LiveAddrs : ADDR_TO_PAGE(a) \notin FreeHeads

\* an exact-fit allocation has unlinked the head of a list that keeps
\* another member, next to another live allocation
C13_Witness ==
  /\ last.op = "alloc" /\ last.ret # NULL /\ last.steps = 0
  /\ Len(free_area[RequestedOrder(last.arg)]) >= 1
  /\ Cardinality(LiveAddrs) >= 2

\* C15: no two buddies are free at the same order: if the block at offset x
\* is linked in free_area[o], o < MAX_ORDER, the block at x XOR 2^o is not.
C15_NoFreeBuddies ==
  \A o \in MIN_ORDER..(MAX_ORDER - 1) : \A n \in 1..Len(free_area[o]) :
    ~IsLinked(free_area, o,
              ADDR_TO_PAGE(BuddyOf(PAGE_TO_ADDR(free_area[o][n]), o)))

\* a free has ended without merging and its list holds another block
C15_Witness ==
  /\ last.op = "free" /\ last.steps = 0
  /\ \E o \in MIN_ORDER..(MAX_ORDER - 1) :
       /\ Len(free_area[o]) >= 2
       /\ Head(free_area[o]) = ADDR_TO_PAGE(last.arg)

\* the size-aligned block of order o headed by page h holds no byte of a
\* live allocation
Clear(h, o) ==
  \A b \in LiveBlocks : Disjoint([head |-> h, ord |-> o], b)

\* the maximal clear size-aligned blocks inside the block <<h, o>>
RECURSIVE MaxClear(_, _)
MaxClear(h, o) ==
  IF Clear(h, o) THEN {<<h, o>>}
  ELSE IF o = MIN_ORDER THEN {}
  ELSE MaxClear(h, o - 1) \cup MaxClear(h + BlockPages(o - 1), o - 1)

\* C16: the free blocks are exactly the maximal size-aligned power-of-two
\* blocks that hold no byte of a live allocation, whatever the history.
C16_FreeSetCanonical ==
  {<<b.head, b.ord>> : b \in FreeBlocks} = MaxClear(0, MAX_ORDER)

\* a free has run, two allocations of different orders are live
C16_Witness ==
  /\ last.op = "free"
  /\ \E a1, a2 \in LiveAddrs :
       order[ADDR_TO_PAGE(a1)] < order[ADDR_TO_PAGE(a2)]
  /\ Cardinality(FreeBlocks) >= 3

\* ---------------------------------------------------- filling the arena
\* the caller asks for one minimum block after another and frees nothing
FillAlloc ==
  LET r == buddy_alloc(State, PAGE_SIZE)
  IN  /\ free_area' = r.free_area
      /\ order' = r.order
      /\ ub' = r.ub
      /\ live' = IF r.ret = NULL THEN live
                 ELSE [a \in LiveAddrs \cup {r.ret} |->
                         IF a = r.ret THEN PAGE_SIZE ELSE live[a]]
      /\ last' = [op |-> "alloc", arg |-> PAGE_SIZE, ret |-> r.ret,
                  steps |-> r.depth]

SpecFill == Init /\ [][FillAlloc]_vars

PageAddrs == {PAGE_TO_ADDR(p) : p \in Pages}

\* C14: from buddy_init, each of the first N_PAGES minimum-size calls
\* returns a page address not returned before, and the call made once
\* N_PAGES addresses are held (they are then all the pages of the arena)
\* fails.
C14_FillArena ==
  [][IF Cardinality(LiveAddrs) < N_PAGES
     THEN last'.ret \in PageAddrs \ LiveAddrs
     ELSE last'.ret = NULL /\ LiveAddrs = PageAddrs]_vars

\* the call after N_PAGES successful ones has failed
C14_Witness ==
  /\ last.op = "alloc" /\ last.ret = NULL
  /\ Cardinality(LiveAddrs) = N_PAGES
  /\ N_PAGES = 256

\* ------------------------------------------------------------- round trip
\* buddy_alloc as in Alloc; the caller also notes the free lists it saw
\* before the call, and whether the address it gets is the one it freed,
\* without coalescing, just before
AllocRT ==
  \E size \in Sizes :
    LET r == buddy_alloc(State, size)
    IN  /\ r.ret = NULL \/ Cardinality(LiveAddrs) < MaxLive
        /\ free_area' = r.free_area
        /\ order' = r.order
        /\ ub' = r.ub
        /\ live' = IF r.ret = NULL THEN live
                   ELSE [a \in LiveAddrs \cup {r.ret} |->
                           IF a = r.ret THEN size ELSE live[a]]
        /\ last' = [op |-> "alloc", arg |-> size, ret |-> r.ret,
                    steps |-> r.depth, pre |-> free_area,
                    reuse |-> /\ last.op = "free" /\ last.steps = 0
                              /\ r.ret = last.arg]

\* buddy_free as in Free; rt tells that the address freed is the one the
\* call just before returned, and pre is then the lists before that call
FreeRT ==
  \E addr \in LiveAddrs :
    LET r == buddy_free(State, addr)
        rt == last.op = "alloc" /\ last.ret = addr
    IN  /\ free_area' = r.free_area
        /\ order' = r.order
        /\ ub' = r.ub
        /\ live' = [a \in LiveAddrs \ {addr} |-> live[a]]
        /\ last' = [op |-> "free", arg |-> addr, ret |-> NULL,
                    steps |-> r.iters, rt |-> rt,
                    pre |-> IF rt THEN last.pre ELSE <<>>]

NextRT == AllocRT \/ FreeRT

SpecRT == Init /\ [][NextRT]_vars

\* C17: a successful buddy_alloc followed at once by buddy_free of the
\* returned address leaves every free list with the members, in the list
\* order, it had before the buddy_alloc.
C17_RoundTrip == (last.op = "free" /\ last.rt) => free_area = last.pre

\* a round trip that split and merged has ended, another allocation is
\* live and a list holds two blocks
C17_Witness ==
  /\ last.op = "free" /\ last.rt /\ last.steps >= 1
  /\ LiveAddrs # {}
  /\ \E o \in Orders : Len(free_area[o]) >= 2

\* C18: free lists are used LIFO: buddy_free links its block at the head of
\* the list, an allocation that needs no split takes the head, and so a
\* buddy_free(A) that ends without coalescing at order o followed at once
\* by a buddy_alloc of requested order o returns A.
C18_Lifo ==
  [][/\ last'.op = "free" =>
          LET m == MergeEnd(free_area, last'.arg,
                            order[ADDR_TO_PAGE(last'.arg)])
          IN  /\ free_area'[m.k] # <<>>
              /\ Head(free_area'[m.k]) = ADDR_TO_PAGE(m.x)
     /\ (last'.op = "alloc" /\ last'.ret # NULL /\ last'.steps = 0) =>
          last'.ret = PAGE_TO_ADDR(Head(free_area[RequestedOrder(last'.arg)]))
     /\ (/\ last.op = "free" /\ last.steps = 0
         /\ last'.op = "alloc" /\ last'.arg > 0
         /\ RequestedOrder(last'.arg) \in Orders
         /\ IsLinked(free_area, RequestedOrder(last'.arg),
                     ADDR_TO_PAGE(last.arg)))
          => last'.ret = last.arg]_vars

\* an allocation has returned the address freed just before, out of a list
\* that held another block as well
C18_Witness ==
  /\ last.op = "alloc" /\ last.ret # NULL /\ last.reuse
  /\ free_area[RequestedOrder(last.arg)] # <<>>

\* ------------------------------------------- the iterative descent (4.2)
\* split the block at offset A from order j + 1 down to order r: each right
\* half A + 2^j goes to the head of list j with its order field set to j
RECURSIVE Descend(_, _, _, _, _)
Descend(fa, ordf, A, j, r) ==
  IF j < r THEN [fa |-> fa, ordf |-> ordf]
  ELSE Descend([fa EXCEPT ![j] = <<ADDR_TO_PAGE(A + 2^j)>> \o @],
               [ordf EXCEPT ![ADDR_TO_PAGE(A + 2^j)] = j], A, j - 1, r)

\* allocate(size) of the specification on the lists fa and order fields ordf
AllocIter(fa, ordf, size) ==
  IF size <= 0 THEN [ret |-> NULL, fa |-> fa, ordf |-> ordf]
  ELSE
    LET r == RequestedOrder(size)
        cand == {i \in r..MAX_ORDER : fa[i] # <<>>}
    IN  IF r > MAX_ORDER \/ cand = {}
        THEN [ret |-> NULL, fa |-> fa, ordf |-> ordf]
        ELSE
          LET i == CHOOSE k \in cand : \A n \in cand : k <= n
              A == PAGE_TO_ADDR(Head(fa[i]))
              d == Descend([fa EXCEPT ![i] = Tail(@)], ordf, A, i - 1, r)
          IN  [ret |-> A, fa |-> d.fa,
               ordf |-> [d.ordf EXCEPT ![ADDR_TO_PAGE(A)] = r]]

\* C19: the recursive buddy_alloc/buddy_split of the source and the
\* iterative descent of the specification agree on every call: same address
\* or both fail, same free lists in the same order, same order field on the
\* returned block.
C19_RecursiveIsIterative ==
  [][last'.op = "alloc" =>
       LET it == AllocIter(free_area, order, last'.arg)
       IN  /\ last'.ret = it.ret
           /\ free_area' = it.fa
           /\ last'.ret # NULL =>
                order'[ADDR_TO_PAGE(last'.ret)]
                  = it.ordf[ADDR_TO_PAGE(last'.ret)]]_vars

\* a request that is no power of two has been served by a split while two
\* other allocations are live
C19_Witness ==
  /\ last.op = "alloc" /\ last.arg = 4097 /\ last.ret # NULL
  /\ last.steps >= 1
  /\ Cardinality(LiveAddrs) = 3

\* C20: every call returns: no nested buddy_alloc fails, a successful
\* buddy_alloc nests at most i - r further calls (i the first non-empty
\* order from r up), and buddy_free runs its loop at most
\* MAX_ORDER - MIN_ORDER + 1 times and leaves it by the inserting branch.
C20_Terminates ==
  [][/\ ~ub'
     /\ (last'.op = "alloc" /\ last'.ret # NULL) =>
          last'.steps
            <= FirstOrderFrom(RequestedOrder(last'.arg))
                 - RequestedOrder(last'.arg)
     /\ last'.op = "free" =>
          /\ last'.steps + 1 <= MAX_ORDER - MIN_ORDER + 1
          /\ last'.inserted]_vars

\* a free has merged at every order up to MAX_ORDER and inserted there
C20_Witness ==
  /\ last.op = "free" /\ last.inserted
  /\ last.steps = MAX_ORDER - MIN_ORDER
  /\ ~ub

\* ------------------------------------------------------------------ misuse
\* addresses a caller may wrongly pass to buddy_free: the address it has
\* just freed, when that page's order field is UNSET, and the first address
\* past the arena
MisuseAddrs ==
  {2^MAX_ORDER}
  \cup (IF last.op = "free" /\ order[ADDR_TO_PAGE(last.arg)] = UNSET
        THEN {last.arg} ELSE {})

\* the list l as a traversal sees it once the node of page p has been
\* relinked elsewhere: the members behind p are lost
CutAfter(l, p) ==
  IF \E n \in 1..Len(l) : l[n] = p
  THEN SubSeq(l, 1, CHOOSE n \in 1..Len(l) : l[n] = p)
  ELSE l

\* buddy_free(addr) with an UNSET order field or an address outside the
\* arena.  The function has no range check, no test of the order field and
\* no diagnostic: it reads g_pages[index].order, then looks at
\* free_area[-1] or beyond g_pages, which is undefined.  The build may stop
\* the process there or let list_add relink the page's node; either way
\* nothing is reported.
FreeMisuse ==
  \E addr \in MisuseAddrs : \E outcome \in {"crash", "corrupt"} :
    /\ ~ub
    /\ ub' = TRUE
    /\ order' = order
    /\ live' = live
    /\ free_area' =
         IF outcome = "corrupt" /\ addr < 2^MAX_ORDER
         THEN [o \in Orders |-> CutAfter(free_area[o], ADDR_TO_PAGE(addr))]
         ELSE free_area
    /\ last' = [op |-> "misuse", arg |-> addr, ret |-> NULL, steps |-> 0,
                outcome |-> outcome, diagnostic |-> FALSE]

NextMisuse == (~ub /\ Alloc) \/ (~ub /\ Free) \/ FreeMisuse

SpecMisuse == Init /\ [][NextMisuse]_vars

\* C12: buddy_free on an address whose order field is UNSET, or outside the
\* arena, is detected and reported with a diagnostic, and no free list and
\* no page record changes.
C12_MisuseDetected ==
  [][last'.op = "misuse" =>
       /\ last'.diagnostic
       /\ free_area' = free_area
       /\ order' = order]_vars
====
